---- MODULE Spec2Model ----
(***************************************************************************)
(* A model of scr/ids_dataset.cc: the build phase of the ns-3 scenario.    *)
(* main() assigns addresses to every link, installs the DMZ services,      *)
(* installs the benign client applications of the three client            *)
(* populations and then the attack applications, and finally runs the     *)
(* simulator.  Every Install/Start/Stop triple of the source is one event  *)
(* of the timeline.                                                        *)
(*                                                                         *)
(* Units: times are integer milliseconds, sizes are bytes, rates are kbps. *)
(* Addresses are 32-bit integers.                                          *)
(***************************************************************************)
EXTENDS Integers, Sequences, FiniteSets, TLC

(***************************************************************************)
(* Bounds of the model.                                                    *)
(***************************************************************************)
\* Every random source is quantised to NumLevels outputs 0 .. NumLevels-1
\* (0 is the smallest value the source can return, NumLevels-1 the largest),
\* and there are NumLevels seeds, so that every draw of the program takes
\* every level under some seed.
NumLevels == 4

\* Population sizes the build is run with: 1 .. MaxSmallPop, the program's
\* own size, and one size that exhausts the population's address space.
MaxSmallPop == 3

VARIABLES
    pc,          \* the block of main() that runs next
    n,           \* size of every NodeContainer
    seed,        \* the run's random seed (ns-3 RngRun and the libc sequence)
    address,     \* the Ipv4AddressHelper: network, prefix, next host number
    subnets,     \* the subnets handed out so far, in order
    ifaces,      \* the Ipv4InterfaceContainers: name -> <<[node, addr]>>
    services,    \* the server applications installed so far
    timeline,    \* the client and attack applications installed so far
    nextStream,  \* ns-3's next automatically assigned stream index
    randCalls,   \* number of calls of the C library's rand() so far
    run,         \* 1 in the first execution of the program, 2 in the second
    prev,        \* what the first execution built: [seed, timeline]
    dmzNet,      \* the network number written in the DMZ's SetBase call
    executed,    \* Simulator::Run: timeline positions in the order started
    resampled    \* Simulator::Run: positions whose application drew again

vars == <<pc, n, seed, address, subnets, ifaces, services, timeline,
          nextStream, randCalls, run, prev, dmzNet, executed, resampled>>

(***************************************************************************)
(* Time and address arithmetic.                                            *)
(***************************************************************************)
Sec(s) == s * 1000

IP(a, b, c, d) == ((a * 256 + b) * 256 + c) * 256 + d

RECURSIVE Pow2(_)
Pow2(k) == IF k = 0 THEN 1 ELSE 2 * Pow2(k - 1)

\* Number of addresses of a subnet with the given prefix length.
BlockSize(prefix) == Pow2(32 - prefix)

\* The address range of a subnet, as a pair.
Range(s) == <<s.base, s.base + BlockSize(s.prefix) - 1>>

RECURSIVE Flatten(_)
Flatten(ss) == IF ss = <<>> THEN <<>> ELSE Head(ss) \o Flatten(Tail(ss))

Min(a, b) == IF a < b THEN a ELSE b

(***************************************************************************)
(* Node populations (lines 184-207).                                       *)
(***************************************************************************)
DefaultPop == 10

\* 254 clients and their switch or access point do not fit a /24, which has
\* 254 host addresses.
OversizePop == 256 - 2

\* The 60th remote client's subnet would be 10.1.0.256.
OversizeRemote == (256 - 20) \div 4 + 1

EnterpriseSizes == (1 .. MaxSmallPop) \cup {DefaultPop, OversizePop}
WifiSizes == (1 .. MaxSmallPop) \cup {DefaultPop, OversizePop}
RemoteSizes == (1 .. MaxSmallPop) \cup {DefaultPop, OversizeRemote}

Node(c, i) == <<c, i>>

Nodes(c, count) == [i \in 1 .. count |-> Node(c, i - 1)]

(***************************************************************************)
(* Ipv4AddressHelper (lines 370-430).                                      *)
(***************************************************************************)
SetBase(net, prefix) == [prefix |-> prefix, net |-> net, next |-> 1]

\* NewAddress aborts ("Address overflow") once the host number exceeds the
\* largest host address of the network.
HostMax(prefix) == BlockSize(prefix) - 2

CanAssign(h, count) == h.next + count - 1 <= HostMax(h.prefix)

Assign(h, devs) ==
    [j \in 1 .. Len(devs) |-> [node |-> devs[j], addr |-> h.net + h.next + j - 1]]

Advance(h, count) == [h EXCEPT !.next = @ + count]

\* NewNetwork that restarts the host numbers but stays on the same network.
NewNetworkNoAdvance(h) == [h EXCEPT !.next = 1]

NewNetwork(h) == [h EXCEPT !.net = @ + BlockSize(h.prefix), !.next = 1]

GetAddress(c, i) == ifaces[c][i + 1].addr

\* One SetBase / Assign / NewNetwork block.
AssignBlock(from, to, name, base, prefix, devs) ==
    /\ pc = from
    /\ CanAssign(SetBase(base, prefix), Len(devs))
    /\ ifaces' = [ifaces EXCEPT ![name] = Assign(SetBase(base, prefix), devs)]
    /\ address' = NewNetwork(Advance(SetBase(base, prefix), Len(devs)))
    /\ subnets' = Append(subnets, [prefix |-> prefix, base |-> base])
    /\ pc' = to
    /\ UNCHANGED <<n, seed, services, timeline, nextStream, randCalls, run, prev,
                   dmzNet, executed, resampled>>

AssignCore1 ==
    AssignBlock("p2pDevices1", "p2pDevices2", "p2pDevices1", IP(10, 1, 0, 0), 30,
                <<Node("core", 0), Node("dist", 0)>>)

AssignCore2 ==
    AssignBlock("p2pDevices2", "vpnToCore", "p2pDevices2", IP(10, 1, 0, 4), 30,
                <<Node("core", 0), Node("dist", 1)>>)

AssignVpnToCore ==
    AssignBlock("vpnToCore", "enterpriseDevices", "vpnToCore", IP(10, 1, 0, 8), 30,
                <<Node("vpn", 0), Node("core", 0)>>)

AssignEnterprise ==
    AssignBlock("enterpriseDevices", "accessToDistDevices", "enterpriseDevices",
                IP(10, 1, 1, 0), 24,
                Nodes("ent", n.ent) \o <<Node("access", 0)>>)

AssignAccessToDist ==
    AssignBlock("accessToDistDevices", "dmzDevices", "accessToDistDevices",
                IP(10, 1, 2, 0), 24, <<Node("access", 0), Node("dist", 0)>>)

DmzBase == IP(10, 3, 1, 0)

AssignDmz ==
    AssignBlock("dmzDevices", "wifiApToDistDevices", "dmzDevices", dmzNet, 24,
                Nodes("dmz", n.dmz) \o <<Node("dist", 1)>>)

AssignWifiApToDist ==
    AssignBlock("wifiApToDistDevices", "wifiDevices", "wifiApToDistDevices",
                IP(10, 1, 3, 0), 24, <<Node("ap", 0), Node("dist", 0)>>)

\* The access point and the stations are assigned from the same network.
AssignWifi ==
    AssignBlock("wifiDevices", "vpnDevices", "wifiDevices", IP(10, 2, 1, 0), 24,
                <<Node("ap", 0)>> \o Nodes("wifi", n.wifi))

\* A stride of two makes consecutive /30 blocks share addresses.
RemoteOctetStride2(i) == i * 2 + 20

\* Last octet of the subnet of remote client i: "10.1.0." << (i * 4 + 20).
RemoteOctet(i) == i * 4 + 20

RemoteBase(i) == IP(10, 1, 0, RemoteOctet(i))

\* An address parser that lets the octet 256 through.
ValidOctetLax(o) == o <= 256

\* Ipv4Address(const char*) rejects an octet above 255.
ValidOctet(o) == o <= 255

AssignVpnDevices ==
    /\ pc = "vpnDevices"
    /\ \A i \in 0 .. n.rem - 1 : ValidOctet(RemoteOctet(i))
    /\ ifaces' = [ifaces EXCEPT !["vpnDevices"] =
           Flatten([k \in 1 .. n.rem |->
               Assign(SetBase(RemoteBase(k - 1), 30),
                      <<Node("vpn", 0), Node("rem", k - 1)>>)])]
    /\ address' = NewNetwork(Advance(SetBase(RemoteBase(n.rem - 1), 30), 2))
    /\ subnets' = subnets \o
           [k \in 1 .. n.rem |-> [prefix |-> 30, base |-> RemoteBase(k - 1)]]
    /\ pc' = "httpServer"
    /\ UNCHANGED <<n, seed, services, timeline, nextStream, randCalls, run, prev,
                   dmzNet, executed, resampled>>

\* The build aborts inside address assignment: NS_ABORT in NewAddress or in
\* the Ipv4Address constructor.  Nothing after line 430 has run.
AssignAbort ==
    /\ \/ /\ pc = "enterpriseDevices"
          /\ ~CanAssign(SetBase(IP(10, 1, 1, 0), 24), n.ent + 1)
       \/ /\ pc = "wifiDevices"
          /\ ~CanAssign(SetBase(IP(10, 2, 1, 0), 24), n.wifi + 1)
       \/ /\ pc = "vpnDevices"
          /\ \E i \in 0 .. n.rem - 1 : ~ValidOctet(RemoteOctet(i))
    /\ pc' = "aborted"
    /\ UNCHANGED <<n, seed, address, subnets, ifaces, services, timeline,
                   nextStream, randCalls, run, prev,
                   dmzNet, executed, resampled>>

(***************************************************************************)
(* Server applications in the DMZ (lines 506-613).                         *)
(***************************************************************************)
appStartTime == 1000
appStopTime == 1500000

httpPort == 80
httpsPort == 443
smtpPort == 25
imapPort == 143
pop3Port == 110
dnsPort == 53
ftpPort == 21
sshPort == 22
echoPort == 9
streamPort == 554

\* A server application bound to Ipv4Address::GetAny() on one node.
Service(name, node, port, proto, start, stop) ==
    [node |-> node, name |-> name, port |-> port, proto |-> proto,
     start |-> start, stop |-> stop]

\* A server installed in place of the binding made first, once there is one.
InstallServerReplacing(from, to, svc) ==
    /\ pc = from
    /\ services' = IF services = <<>> THEN <<svc>> ELSE <<svc>> \o Tail(services)
    /\ pc' = to
    /\ UNCHANGED <<n, seed, address, subnets, ifaces, timeline, nextStream,
                   randCalls, run, prev,
                   dmzNet, executed, resampled>>

InstallServer(from, to, svc) ==
    /\ pc = from
    /\ services' = Append(services, svc)
    /\ pc' = to
    /\ UNCHANGED <<n, seed, address, subnets, ifaces, timeline, nextStream,
                   randCalls, run, prev,
                   dmzNet, executed, resampled>>

HttpServer ==
    InstallServer("httpServer", "httpsServer",
        Service("http", Node("dmz", 0), httpPort, "tcp", appStartTime, appStopTime))

HttpsServer ==
    InstallServer("httpsServer", "smtpServer",
        Service("https", Node("dmz", 0), httpsPort, "tcp", appStartTime, appStopTime))

SmtpServer ==
    InstallServer("smtpServer", "imapServer",
        Service("smtp", Node("dmz", 1), smtpPort, "tcp", appStartTime, appStopTime))

ImapServer ==
    InstallServer("imapServer", "pop3Server",
        Service("imap", Node("dmz", 1), imapPort, "tcp", appStartTime, appStopTime))

Pop3Server ==
    InstallServer("pop3Server", "dnsServer",
        Service("pop3", Node("dmz", 1), pop3Port, "tcp", appStartTime, appStopTime))

DnsServer ==
    InstallServer("dnsServer", "ftpServer",
        Service("dns", Node("dmz", 2), dnsPort, "udp", appStartTime, appStopTime))

FtpServer ==
    InstallServer("ftpServer", "sshServer",
        Service("ftp", Node("dmz", 3), ftpPort, "tcp", appStartTime, appStopTime))

SshServer ==
    InstallServer("sshServer", "echoServer",
        Service("ssh", Node("dmz", 3), sshPort, "tcp", appStartTime, appStopTime))

EchoServer ==
    InstallServer("echoServer", "streamServer",
        Service("echo", Node("dmz", 4), echoPort, "udp", appStartTime, appStopTime))

StreamServer ==
    InstallServer("streamServer", "entHttp",
        Service("stream", Node("dmz", 0), streamPort, "udp", appStartTime, appStopTime))

\* The addresses main() reads back from the interface containers.
webServerIp == GetAddress("dmzDevices", 0)
emailServerIp == GetAddress("dmzDevices", 1)
dnsServerIp == GetAddress("dmzDevices", 2)
ftpServerIp == GetAddress("dmzDevices", 3)
echoServerIp == GetAddress("dmzDevices", 4)

\* The literal the three streaming clients are given instead.
streamServerLiteral == IP(10, 3, 1, 1)

(***************************************************************************)
(* Random sources.                                                         *)
(*                                                                         *)
(* An ns-3 RandomVariableStream takes the next free stream index when it   *)
(* is created; its k-th value is a function of the run's seed, that index  *)
(* and k.  rand() is one process-wide sequence, never seeded by main().    *)
(* nextStream counts the CreateObject calls of main() only.                *)
(***************************************************************************)
Out(s, k) == (seed + s + k) % NumLevels

\* rand() seeded from the clock: the sequence differs from execution to
\* execution.
CRandTimeSeeded(k) == (seed + run + k) % NumLevels

CRand(k) == (seed + k) % NumLevels

\* UniformRandomVariable::GetValue(): a value of [lo, hi), truncated to the
\* integer unit it is used in.
GetValue(lo, hi, level) == lo + ((hi - 1 - lo) * level) \div (NumLevels - 1)

\* UniformRandomVariable::GetInteger(): an integer of [lo, hi].
GetInteger(lo, hi, level) == GetValue(lo, hi + 1, level)

\* -ln(u) in thousandths for the smallest u the generator returns (2^-32).
ExpMaxMilli == 22181

\* ExponentialRandomVariable::GetValue() with no bound: -mean * ln(u).
\* (mean * milli) / 1000, split so that no product leaves 32 bits.
Exp(mean, level) ==
    LET milli == (ExpMaxMilli * level) \div (NumLevels - 1)
    IN  (mean \div 1000) * milli + ((mean % 1000) * milli) \div 1000

\* rand() % m.
RandMod(m, level) == ((m - 1) * level) \div (NumLevels - 1)

KB == 1024
MB == 1024 * 1024

(***************************************************************************)
(* Client and attack applications: one timeline event per Install.         *)
(***************************************************************************)
Ev(gen, src, idx, addr, port, proto, start, stop, size, jit, aux) ==
    [addr |-> addr, port |-> port, proto |-> proto, start |-> start,
     stop |-> stop, gen |-> gen, src |-> src, idx |-> idx, size |-> size,
     jit |-> jit, aux |-> aux]

\* A block of main() that installs client applications: it appends its
\* events, creates `created` random variables and calls rand() `calls` times.
Generate(from, to, events, created, calls) ==
    /\ pc = from
    /\ timeline' = timeline \o events
    /\ nextStream' = nextStream + created
    /\ randCalls' = randCalls + calls
    /\ pc' = to
    /\ UNCHANGED <<n, seed, address, subnets, ifaces, services, run, prev,
                   dmzNet, executed, resampled>>

\* Sum of the first i entries of a sequence of numbers.
RECURSIVE PrefixSum(_, _)
PrefixSum(counts, i) == IF i = 0 THEN 0 ELSE counts[i] + PrefixSum(counts, i - 1)

\* The port of the email protocol selected by protocolChoice.
EmailPort(choice) ==
    IF choice = 0 THEN smtpPort ELSE IF choice = 1 THEN imapPort ELSE pop3Port

(***************************************************************************)
(* Enterprise clients (lines 665-932).                                     *)
(***************************************************************************)
\* The stagger counted from client 1 instead of client 0.
EntHttpStartFromOne(i, jit) == Sec(5) + Sec(1) * (i + 1) + jit

\* Lines 665-696: randPayloadSize and randInterRequestTime serve both the
\* HTTP and the HTTPS client of every node, in program order.
EntHttpStart(i, jit) == Sec(5) + Sec(1) * i + jit

EntHttpRow(i) ==
    LET s0 == nextStream
        s1 == nextStream + 1
        j1 == Exp(500, Out(s1, 2 * i))
        j2 == Exp(500, Out(s1, 2 * i + 1))
    IN  << Ev("entHttp", Node("ent", i), <<i, 0>>, webServerIp, httpPort, "tcp",
              EntHttpStart(i, j1), appStopTime,
              GetValue(512, 10 * KB, Out(s0, 2 * i)), j1, <<>>),
           Ev("entHttps", Node("ent", i), <<i, 0>>, webServerIp, httpsPort, "tcp",
              Sec(6) + Sec(1) * i + j2, appStopTime,
              GetValue(512, 10 * KB, Out(s0, 2 * i + 1)), j2, <<>>) >>

EnterpriseHttp ==
    Generate("entHttp", "entEmail",
             Flatten([k \in 1 .. n.ent |-> EntHttpRow(k - 1)]), 2, 0)

\* Lines 703-752: one protocol draw per client, ten emails per client.
EntEmailRow(i) ==
    LET s0 == nextStream
        s1 == nextStream + 1
        s2 == nextStream + 2
        port == EmailPort(GetInteger(0, 2, Out(s0, i)))
    IN  [k \in 1 .. 10 |->
            LET j == k - 1
                jit == Exp(30000, Out(s2, 10 * i + j))
            IN  Ev("entEmail", Node("ent", i), <<i, j>>, emailServerIp, port, "tcp",
                   Sec(10) + Sec(2) * i + jit, appStopTime,
                   GetValue(50 * KB, 150 * KB, Out(s1, 10 * i + j)), jit, <<>>)]

EnterpriseEmail ==
    Generate("entEmail", "entDns",
             Flatten([k \in 1 .. n.ent |-> EntEmailRow(k - 1)]), 3, 0)

\* The number of requests drawn at random instead of computed from i.
DnsRequestCountDrawn(i) == 20 + i * 5 + CRand(i)

\* Lines 759-786.
DnsRequestCount(i) == 20 + i * 5

EntDnsRow(i) ==
    LET s0 == nextStream
        s1 == nextStream + 1
        before == PrefixSum([k \in 1 .. i |-> DnsRequestCount(k - 1)], i)
    IN  [k \in 1 .. DnsRequestCount(i) |->
            LET j == k - 1
            IN  Ev("entDns", Node("ent", i), <<i, j>>, dnsServerIp, dnsPort, "udp",
                   Sec(15) + 500 * i + 100 * j, appStopTime,
                   GetValue(64, 512, Out(s1, before + j)), 0,
                   <<Exp(500, Out(s0, before + j))>>)]

EnterpriseDns ==
    Generate("entDns", "entFtp",
             Flatten([k \in 1 .. n.ent |-> EntDnsRow(k - 1)]), 2, 0)

\* Three transfers for every client.
FtpTransferCountFixed(i) == 3 + 0 * i

\* Lines 792-820.
FtpTransferCount(i) == 3 + (i % 3)

EntFtpRow(i) ==
    LET s0 == nextStream
        s1 == nextStream + 1
        before == PrefixSum([k \in 1 .. i |-> FtpTransferCount(k - 1)], i)
    IN  [k \in 1 .. FtpTransferCount(i) |->
            LET j == k - 1
                jit == j * Exp(1000, Out(s1, before + j))
            IN  Ev("entFtp", Node("ent", i), <<i, j>>, ftpServerIp, ftpPort, "tcp",
                   Sec(20) + 500 * i + jit, appStopTime,
                   GetValue(1 * MB, 10 * MB, Out(s0, before + j)), jit, <<>>)]

EnterpriseFtp ==
    Generate("entFtp", "entSsh",
             Flatten([k \in 1 .. n.ent |-> EntFtpRow(k - 1)]), 2, 0)

\* Lines 826-857: sshIntervalRand is created and never drawn from.
SshSessionCount(i) == 2 + (i % 3)

EntSshRow(i) ==
    LET s0 == nextStream
        s2 == nextStream + 2
        before == PrefixSum([k \in 1 .. i |-> SshSessionCount(k - 1)], i)
    IN  [k \in 1 .. SshSessionCount(i) |->
            LET j == k - 1
                jit == j * GetValue(Sec(1), Sec(5), Out(s2, before + j))
            IN  Ev("entSsh", Node("ent", i), <<i, j>>, ftpServerIp, sshPort, "tcp",
                   Sec(25) + 500 * i + jit, appStopTime,
                   Exp(500 * KB, Out(s0, before + j)), jit, <<>>)]

EnterpriseSsh ==
    Generate("entSsh", "entEcho",
             Flatten([k \in 1 .. n.ent |-> EntSshRow(k - 1)]), 3, 0)

\* Lines 863-892.
EntEchoRow(i) ==
    LET s0 == nextStream
        s1 == nextStream + 1
        s2 == nextStream + 2
    IN  << Ev("entEcho", Node("ent", i), <<i, 0>>, echoServerIp, echoPort, "udp",
              Sec(12) + 500 * i, appStopTime,
              GetInteger(128, 1500, Out(s0, i)), 0,
              <<GetInteger(10, 50, Out(s2, i)), Exp(100, Out(s1, i))>>) >>

EnterpriseEcho ==
    Generate("entEcho", "entStream",
             Flatten([k \in 1 .. n.ent |-> EntEchoRow(k - 1)]), 3, 0)

\* Lines 899-932: the target is the literal 10.3.1.1.
EntStreamRow(i) ==
    LET s0 == nextStream
        s1 == nextStream + 1
        s2 == nextStream + 2
        s3 == nextStream + 3
    IN  << Ev("entStream", Node("ent", i), <<i, 0>>, streamServerLiteral,
              streamPort, "udp", Sec(100) + 500 * i, appStopTime,
              GetInteger(512, 1500, Out(s0, i)), 0,
              <<GetValue(1500, 8000, Out(s3, i)), Exp(2000, Out(s1, i)),
                Exp(500, Out(s2, i))>>) >>

EnterpriseStream ==
    Generate("entStream", "wifiHttp",
             Flatten([k \in 1 .. n.ent |-> EntStreamRow(k - 1)]), 4, 0)

(***************************************************************************)
(* Wi-Fi clients (lines 941-1116).  Inside these loops every client gets   *)
(* random variables of its own, each drawn from once.                      *)
(***************************************************************************)
WifiHttpRow(i) ==
    << Ev("wifiHttp", Node("wifi", i), <<i, 0>>, webServerIp, httpPort, "tcp",
          Sec(6) + 750 * i, appStopTime,
          GetInteger(512, 1500, Out(nextStream + 2 * i, 0)), 0, <<>>),
       Ev("wifiHttps", Node("wifi", i), <<i, 0>>, webServerIp, httpsPort, "tcp",
          6500 + 750 * i, appStopTime,
          GetInteger(512, 2000, Out(nextStream + 2 * i + 1, 0)), 0, <<>>) >>

WifiHttp ==
    Generate("wifiHttp", "wifiEmail",
             Flatten([k \in 1 .. n.wifi |-> WifiHttpRow(k - 1)]), 2 * n.wifi, 0)

\* Lines 971-1006: emailProtocolRand is shared, emailSizeRand is per client.
WifiEmailRow(i) ==
    << Ev("wifiEmail", Node("wifi", i), <<i, 0>>, emailServerIp,
          EmailPort(GetInteger(0, 2, Out(nextStream, i))), "tcp",
          Sec(10) + 500 * i, appStopTime,
          GetInteger(30 * KB, 80 * KB, Out(nextStream + 1 + i, 0)), 0, <<>>) >>

WifiEmail ==
    Generate("wifiEmail", "wifiDns",
             Flatten([k \in 1 .. n.wifi |-> WifiEmailRow(k - 1)]), 1 + n.wifi, 0)

WifiDnsRow(i) ==
    << Ev("wifiDns", Node("wifi", i), <<i, 0>>, dnsServerIp, dnsPort, "udp",
          Sec(15) + 200 * i, appStopTime,
          GetInteger(50, 256, Out(nextStream + i, 0)), 0, <<10, 500>>) >>

WifiDns ==
    Generate("wifiDns", "wifiStream",
             Flatten([k \in 1 .. n.wifi |-> WifiDnsRow(k - 1)]), n.wifi, 0)

\* Lines 1029-1060: four shared random variables, the literal target again.
WifiStreamRow(i) ==
    LET s0 == nextStream
        s1 == nextStream + 1
        s2 == nextStream + 2
        s3 == nextStream + 3
    IN  << Ev("wifiStream", Node("wifi", i), <<i, 0>>, streamServerLiteral,
              streamPort, "udp", Sec(100) + 300 * i, appStopTime,
              GetInteger(400, 1200, Out(s0, i)), 0,
              <<GetValue(1000, 4000, Out(s3, i)), Exp(1500, Out(s1, i)),
                Exp(700, Out(s2, i))>>) >>

WifiStream ==
    Generate("wifiStream", "wifiFtp",
             Flatten([k \in 1 .. n.wifi |-> WifiStreamRow(k - 1)]), 4, 0)

\* The Wi-Fi FTP client given the enterprise clients' file sizes.
WifiFtpRowEnterpriseSizes(i) ==
    << Ev("wifiFtp", Node("wifi", i), <<i, 0>>, ftpServerIp, ftpPort, "tcp",
          Sec(20) + Sec(1) * i, appStopTime,
          GetInteger(1 * MB, 10 * MB, Out(nextStream + i, 0)), 0, <<>>) >>

WifiFtpRow(i) ==
    << Ev("wifiFtp", Node("wifi", i), <<i, 0>>, ftpServerIp, ftpPort, "tcp",
          Sec(20) + Sec(1) * i, appStopTime,
          GetInteger(500 * KB, 2 * MB, Out(nextStream + i, 0)), 0, <<>>) >>

WifiFtp ==
    Generate("wifiFtp", "wifiSsh",
             Flatten([k \in 1 .. n.wifi |-> WifiFtpRow(k - 1)]), n.wifi, 0)

WifiSshRow(i) ==
    << Ev("wifiSsh", Node("wifi", i), <<i, 0>>, ftpServerIp, sshPort, "tcp",
          Sec(25) + 1200 * i, appStopTime,
          GetInteger(100 * KB, 700 * KB, Out(nextStream + i, 0)), 0, <<>>) >>

WifiSsh ==
    Generate("wifiSsh", "wifiEcho",
             Flatten([k \in 1 .. n.wifi |-> WifiSshRow(k - 1)]), n.wifi, 0)

WifiEchoRow(i) ==
    << Ev("wifiEcho", Node("wifi", i), <<i, 0>>, echoServerIp, echoPort, "udp",
          Sec(12) + 500 * i, appStopTime,
          GetInteger(128, 1024, Out(nextStream + i, 0)), 0, <<15, 500>>) >>

WifiEcho ==
    Generate("wifiEcho", "remote",
             Flatten([k \in 1 .. n.wifi |-> WifiEchoRow(k - 1)]), n.wifi, 0)

(***************************************************************************)
(* Remote clients (lines 1122-1210): sizes and jitters come from rand(),   *)
(* fourteen calls per client; the email protocol from a random variable    *)
(* created per client.                                                     *)
(***************************************************************************)
RandPerRemote == 14

\* The stop time without its per-client term.
RemHttpStopFixed(i) == Sec(30) + 0 * i

\* Stop of the HTTP client of remote client i: Seconds(30.0 + i * 20).
RemHttpStop(i) == Sec(30) + Sec(20) * i

\* The DNS client kept running to the end of the simulation.
RemDnsStopAtAppStop(i) == appStopTime + 0 * i

\* Stop of the DNS client of remote client i: Seconds(150.0 + i * 10).
RemDnsStop(i) == Sec(150) + Sec(10) * i

RemoteRow(i) ==
    LET node == Node("rem", i)
        R(c) == CRand(randCalls + RandPerRemote * i + c)
        emailJit == Sec(1) * RandMod(15, R(3))
        ftpJit == Sec(1) * RandMod(20, R(6))
        sshJit == Sec(1) * RandMod(10, R(8))
        echoJit == Sec(1) * RandMod(20, R(11))
        streamJit == Sec(1) * RandMod(20, R(13))
    IN  << Ev("remHttp", node, <<i, 0>>, webServerIp, httpPort, "tcp",
              Sec(5) + Sec(10) * i, RemHttpStop(i),
              256 * KB + RandMod(1 * MB, R(0)), 0, <<>>),
           Ev("remHttps", node, <<i, 0>>, webServerIp, httpsPort, "tcp",
              Sec(12) + Sec(15) * i, appStopTime,
              128 * KB + RandMod(1 * MB, R(1)), 0, <<>>),
           Ev("remEmail", node, <<i, 0>>, emailServerIp,
              EmailPort(GetInteger(0, 2, Out(nextStream + i, 0))), "tcp",
              Sec(20) + Sec(10) * i + emailJit, appStopTime,
              20 * KB + RandMod(80 * KB, R(2)), emailJit, <<>>),
           Ev("remDns", node, <<i, 0>>, dnsServerIp, dnsPort, "udp",
              Sec(30) + Sec(5) * i, RemDnsStop(i),
              48, 0, <<3, 1500 + Sec(1) * RandMod(3, R(4))>>),
           Ev("remFtp", node, <<i, 0>>, ftpServerIp, ftpPort, "tcp",
              Sec(40) + Sec(8) * i + ftpJit, appStopTime,
              200 * KB + RandMod(3 * MB, R(5)), ftpJit, <<>>),
           Ev("remSsh", node, <<i, 0>>, ftpServerIp, sshPort, "tcp",
              Sec(50) + Sec(6) * i + sshJit, appStopTime,
              100 * KB + RandMod(300 * KB, R(7)), sshJit, <<>>),
           Ev("remEcho", node, <<i, 0>>, echoServerIp, echoPort, "udp",
              Sec(55) + Sec(4) * i + echoJit, appStopTime,
              256 + RandMod(512, R(10)), echoJit,
              <<10, Sec(2) + Sec(1) * RandMod(2, R(9))>>),
           Ev("remStream", node, <<i, 0>>, streamServerLiteral, streamPort, "udp",
              Sec(60) + Sec(3) * i + streamJit, Sec(160),
              512 + RandMod(1024, R(12)), streamJit, <<1000>>) >>

RemoteClients ==
    Generate("remote", "synFlood",
             Flatten([k \in 1 .. n.rem |-> RemoteRow(k - 1)]),
             n.rem, RandPerRemote * n.rem)

(***************************************************************************)
(* Attack applications (lines 1274-1756).                                  *)
(*                                                                         *)
(* An attack loop "for (i = 0; i < declared && i < c.GetN(); ++i)" runs    *)
(* over the first Attackers(declared, c) nodes of container c.             *)
(***************************************************************************)
\* The loop without its "i < declared" bound.
AttackersAllNodes(declared, c) == n[c] + 0 * declared

Attackers(declared, c) == Min(declared, n[c])

\* Lines 1277-1294.
attackStartTime == 60000
attackStopTime == 100000
numClients == 3
SynStagger == 100

SynFloodRow(i) ==
    << Ev("synFlood", Node("rem", i), <<i, 0>>, webServerIp, httpPort, "tcp",
          attackStartTime + i * SynStagger, attackStopTime, 0, 0, <<>>) >>

SynFlood ==
    Generate("synFlood", "udpFlood",
             Flatten([k \in 1 .. Attackers(numClients, "rem") |-> SynFloodRow(k - 1)]),
             0, 0)

\* Lines 1301-1318.
udpFloodStartTime == 100000
udpFloodStopTime == 125000

UdpFloodRow(i) ==
    << Ev("udpFlood", Node("ent", i), <<i, 0>>, dnsServerIp, dnsPort, "udp",
          udpFloodStartTime + i * 100, udpFloodStopTime, 512, 0, <<100000>>) >>

UdpFlood ==
    Generate("udpFlood", "icmpFlood",
             Flatten([k \in 1 .. Attackers(3, "ent") |-> UdpFloodRow(k - 1)]), 0, 0)

\* Lines 1325-1345: the target is the core router's first interface, port 0.
icmpFloodStartTime == 205000
icmpFloodStopTime == 255000

coreRouterIp == GetAddress("p2pDevices1", 0)

IcmpFloodRow(i) ==
    << Ev("icmpFlood", Node("wifi", i), <<i, 0>>, coreRouterIp, 0, "udp",
          icmpFloodStartTime + i * 100, icmpFloodStopTime, 64, 0, <<1000000, 1>>) >>

IcmpFlood ==
    Generate("icmpFlood", "portScan",
             Flatten([k \in 1 .. Attackers(3, "wifi") |-> IcmpFloodRow(k - 1)]), 0, 0)

\* Lines 1351-1373.
scanStartTime == 150000
scanStopTime == 168000
numScanClients == 3

\* The list with port 80 entered twice.
portsToScanWithDuplicate ==
    <<21, 22, 25, 53, 80, 110, 123, 143, 179, 443, 500, 587, 80>>

portsToScan == <<21, 22, 25, 53, 80, 110, 123, 143, 179, 443, 500, 587>>

\* The offset taken from the position in the list instead of the port.
PortScanStartByIndex(i, k) == scanStartTime + i * 100 + k * 10

\* Start of the probe of attacker i on the k-th port of the list (k from 0):
\* the source adds port * 0.01, the port number itself.
PortScanStart(i, k) == scanStartTime + i * 100 + portsToScan[k + 1] * 10

PortScanRow(i) ==
    [k \in 1 .. Len(portsToScan) |->
        Ev("portScan", Node("wifi", i), <<i, k - 1>>, webServerIp,
           portsToScan[k], "tcp", PortScanStart(i, k - 1), scanStopTime,
           512, 0, <<>>)]

PortScan ==
    Generate("portScan", "fakeHttpServer",
             Flatten([k \in 1 .. Attackers(numScanClients, "wifi") |->
                         PortScanRow(k - 1)]), 0, 0)

\* The fake server bound to a port the e-mail server's node already serves.
fakeHttpPortTaken == smtpPort

\* Lines 1380-1387: the fake HTTP server, on the e-mail server's node.
fakeHttpPort == 8081

FakeHttpServer ==
    InstallServer("fakeHttpServer", "mitm",
        Service("fakeHttp", Node("dmz", 1), fakeHttpPort, "tcp", Sec(10), Sec(450)))

fakeServerIp == GetAddress("dmzDevices", 1)

\* Lines 1396-1412.
redirectStartTime == 262000
redirectStopTime == 313000

MitmRow(i) ==
    << Ev("mitm", Node("ent", i), <<i, 0>>, fakeServerIp, fakeHttpPort, "tcp",
          redirectStartTime + i * 100, redirectStopTime, 1 * MB, 0, <<>>) >>

MitmRedirect ==
    Generate("mitm", "ftpBruteForce",
             Flatten([k \in 1 .. Attackers(2, "ent") |-> MitmRow(k - 1)]), 0, 0)

\* The attempts counted from one: the first attempt is already delayed.
CredentialRowFromOne(gen, c, i, attempts, addr, port, base, dAttacker, dAttempt, stop, size) ==
    [k \in 1 .. attempts |->
        Ev(gen, Node(c, i), <<i, k - 1>>, addr, port, "tcp",
           base + i * dAttacker + k * dAttempt, stop, size, 0, <<>>)]

\* A credential attack: attempts connections per attacker.
CredentialRow(gen, c, i, attempts, addr, port, base, dAttacker, dAttempt, stop, size) ==
    [k \in 1 .. attempts |->
        Ev(gen, Node(c, i), <<i, k - 1>>, addr, port, "tcp",
           base + i * dAttacker + (k - 1) * dAttempt, stop, size, 0, <<>>)]

\* Lines 1418-1439.
bruteForceStartTime == 347000
bruteForceStopTime == 367000

FtpBruteForce ==
    Generate("ftpBruteForce", "sqlInjection",
             Flatten([k \in 1 .. Attackers(3, "rem") |->
                 CredentialRow("ftpBruteForce", "rem", k - 1, 10, ftpServerIp, ftpPort,
                               bruteForceStartTime, 100, 500, bruteForceStopTime, 512)]),
             0, 0)

\* The packet sized to the payload alone, without the 50 bytes of header.
PayloadRowBareLength(gen, i, payloads, base, dPayload, stop, rate) ==
    [k \in 1 .. Len(payloads) |->
        Ev(gen, Node("ent", i), <<i, k - 1>>, webServerIp, httpPort, "tcp",
           base + i * 100 + (k - 1) * dPayload, stop,
           Len(payloads[k]), 0, <<rate>>)]

\* A payload-injection attack: one OnOff application per payload string,
\* its packet size the payload's length plus 50.
PayloadRow(gen, i, payloads, base, dPayload, stop, rate) ==
    [k \in 1 .. Len(payloads) |->
        Ev(gen, Node("ent", i), <<i, k - 1>>, webServerIp, httpPort, "tcp",
           base + i * 100 + (k - 1) * dPayload, stop,
           Len(payloads[k]) + 50, 0, <<rate>>)]

\* Lines 1445-1481.
sqlInjectionStartTime == 368000
sqlInjectionStopTime == 433000

sqlPayloads ==
    << "' OR '1'='1",
       "' OR 'a'='a",
       "' OR 1=1 --",
       "'; DROP TABLE users; --",
       "'; SELECT * FROM users WHERE 'a'='a",
       "' UNION SELECT NULL, NULL, NULL --" >>

SqlInjection ==
    Generate("sqlInjection", "sshBruteForce",
             Flatten([k \in 1 .. Attackers(3, "ent") |->
                 PayloadRow("sqlInjection", k - 1, sqlPayloads,
                            sqlInjectionStartTime, 500, sqlInjectionStopTime, 2000)]),
             0, 0)

\* Lines 1487-1506.
sshBruteForceStartTime == 169000
sshBruteForceStopTime == 184000

sshServerIp == GetAddress("dmzDevices", 3)

SshBruteForce ==
    Generate("sshBruteForce", "ftpLoginFlood",
             Flatten([k \in 1 .. Attackers(3, "rem") |->
                 CredentialRow("sshBruteForce", "rem", k - 1, 20, sshServerIp, sshPort,
                               sshBruteForceStartTime, 200, 200,
                               sshBruteForceStopTime, 512)]),
             0, 0)

\* Lines 1512-1531.
ftpBruteForceStartTime == 483000
ftpBruteForceStopTime == 533000

FtpLoginFlood ==
    Generate("ftpLoginFlood", "cncServer",
             Flatten([k \in 1 .. Attackers(2, "ent") |->
                 CredentialRow("ftpLoginFlood", "ent", k - 1, 30, ftpServerIp, ftpPort,
                               ftpBruteForceStartTime, 100, 100,
                               ftpBruteForceStopTime, 1024)]),
             0, 0)

\* Lines 1538-1545: the C&C listener, on the echo server's node.
cncPort == 9999

\* The C&C listener started only at 600 s.
CncServerStartedLate ==
    InstallServer("cncServer", "botComm",
        Service("cnc", Node("dmz", 4), cncPort, "tcp", Sec(600), Sec(700)))

CncServer ==
    InstallServer("cncServer", "botComm",
        Service("cnc", Node("dmz", 4), cncPort, "tcp", Sec(20), Sec(700)))

cncServerIp == GetAddress("dmzDevices", 4)

\* Lines 1551-1570.
botCommStartTime == 546000
botCommStopTime == 607000

BotRow(i) ==
    << Ev("botComm", Node("wifi", i), <<i, 0>>, cncServerIp, cncPort, "tcp",
          botCommStartTime + i * 200, botCommStopTime, 128, 0, <<500>>) >>

BotComm ==
    Generate("botComm", "vpnFlood",
             Flatten([k \in 1 .. Attackers(3, "wifi") |-> BotRow(k - 1)]), 0, 0)

\* Lines 1576-1596: no server application is ever installed on the VPN server.
vpnFloodStartTime == 608000
vpnFloodStopTime == 633000
vpnPort == 443

vpnServerIp == GetAddress("vpnToCore", 0)

VpnFloodRow(i) ==
    << Ev("vpnFlood", Node("rem", i), <<i, 0>>, vpnServerIp, vpnPort, "tcp",
          vpnFloodStartTime + i * 100, vpnFloodStopTime, 1024, 0, <<50000>>) >>

VpnFlood ==
    Generate("vpnFlood", "credentialStuffing",
             Flatten([k \in 1 .. Attackers(3, "rem") |-> VpnFloodRow(k - 1)]), 0, 0)

\* Lines 1602-1623.
credentialStuffingStartTime == 444000
credentialStuffingStopTime == 483000

CredentialStuffing ==
    Generate("credentialStuffing", "xss",
             Flatten([k \in 1 .. Attackers(3, "rem") |->
                 CredentialRow("credentialStuffing", "rem", k - 1, 15, vpnServerIp,
                               vpnPort, credentialStuffingStartTime, 200, 100,
                               credentialStuffingStopTime, 512)]),
             0, 0)

\* Lines 1628-1661.
xssStartTime == 728000
xssStopTime == 788000

xssPayloads ==
    << "GET /search?q=<script>alert('XSS1')</script> HTTP/1.1",
       "GET /profile?name=<script>alert('XSS2')</script> HTTP/1.1",
       "GET /comments?id=1'><script>alert('XSS3')</script> HTTP/1.1",
       "GET /index.html?page=<script>alert('XSS4')</script> HTTP/1.1" >>

Xss ==
    Generate("xss", "arpSpoof",
             Flatten([k \in 1 .. Attackers(2, "ent") |->
                 PayloadRow("xss", k - 1, xssPayloads, xssStartTime, 200,
                            xssStopTime, 500)]),
             0, 0)

(***************************************************************************)
(* Attacks on fixed picks: NodeContainer::Get(i) does not check i.  With   *)
(* i past the end the read is undefined: the process crashes, or goes on   *)
(* with whatever the read returned.                                        *)
(***************************************************************************)
InRange(c, i) == i < n[c]

WildNode(c, i) == <<"wild", i>>

\* Reading past the end of the containers in `picks` (pairs <<c, i>>): the
\* build crashes, or installs `events` on wild nodes and goes on.
OutOfRange(from, to, picks, events) ==
    /\ pc = from
    /\ \E p \in picks : ~InRange(p[1], p[2])
    /\ \/ /\ pc' = "crashed"
          /\ UNCHANGED timeline
       \/ /\ pc' = to
          /\ timeline' = timeline \o events
    /\ UNCHANGED <<n, seed, address, subnets, ifaces, services, nextStream,
                   randCalls, run, prev,
                   dmzNet, executed, resampled>>

Get(c, i) == IF InRange(c, i) THEN Node(c, i) ELSE WildNode(c, i)

\* Lines 1666-1686: the attacker is enterprise client 2.
arpPoisonStartTime == 321000
arpPoisonStopTime == 346000

targetIp == GetAddress("dmzDevices", 0)

ArpEvents ==
    << Ev("arpSpoof", Get("ent", 2), <<2, 0>>, targetIp, 80, "udp",
          arpPoisonStartTime, arpPoisonStopTime, 128, 0, <<1000>>) >>

ArpSpoof ==
    /\ InRange("ent", 2)
    /\ Generate("arpSpoof", "zeroDay", ArpEvents, 0, 0)

ArpSpoofOutOfRange == OutOfRange("arpSpoof", "zeroDay", {<<"ent", 2>>}, ArpEvents)

\* Lines 1692-1722: the attacker is enterprise client 1.
zeroDayStartTime == 933000
zeroDayStopTime == 983000

\* The zero-day flows stopped a window's length after the horizon instead of
\* at zeroDayStopTime.
ZeroDayEventsPastHorizon ==
    << Ev("zeroDay", Get("ent", 1), <<1, 0>>, targetIp, httpPort, "tcp",
          zeroDayStartTime, appStopTime + (zeroDayStopTime - zeroDayStartTime),
          1024, 0, <<10000>>),
       Ev("zeroDayHttps", Get("ent", 1), <<1, 0>>, targetIp, httpsPort, "tcp",
          zeroDayStartTime, appStopTime + (zeroDayStopTime - zeroDayStartTime),
          1024, 0, <<10000>>) >>

ZeroDayEvents ==
    << Ev("zeroDay", Get("ent", 1), <<1, 0>>, targetIp, httpPort, "tcp",
          zeroDayStartTime, zeroDayStopTime, 1024, 0, <<10000>>),
       Ev("zeroDayHttps", Get("ent", 1), <<1, 0>>, targetIp, httpsPort, "tcp",
          zeroDayStartTime, zeroDayStopTime, 1024, 0, <<10000>>) >>

ZeroDay ==
    /\ InRange("ent", 1)
    /\ Generate("zeroDay", "ddos", ZeroDayEvents, 0, 0)

ZeroDayOutOfRange == OutOfRange("zeroDay", "ddos", {<<"ent", 1>>}, ZeroDayEvents)

\* Lines 1727-1756: enterprise client 0, Wi-Fi station 1, remote client 2.
ddosStartTime == 583000
ddosStopTime == 608000
ddosTargetPort == 80

ddosAttackers == <<<<"ent", 0>>, <<"wifi", 1>>, <<"rem", 2>>>>

\* The DDoS flows left at the window the source was revised from
\* (950 s - 1000 s, comment of lines 1727-1728).
DdosEventsBeforeRevision ==
    [k \in 1 .. Len(ddosAttackers) |->
        Ev("ddos", Get(ddosAttackers[k][1], ddosAttackers[k][2]), <<k - 1, 0>>,
           targetIp, ddosTargetPort, "udp", Sec(950) + (k - 1) * 500,
           Sec(1000), 1024, 0, <<100000>>)]

DdosEvents ==
    [k \in 1 .. Len(ddosAttackers) |->
        Ev("ddos", Get(ddosAttackers[k][1], ddosAttackers[k][2]), <<k - 1, 0>>,
           targetIp, ddosTargetPort, "udp", ddosStartTime + (k - 1) * 500,
           ddosStopTime, 1024, 0, <<100000>>)]

Ddos ==
    /\ \A k \in 1 .. Len(ddosAttackers) : InRange(ddosAttackers[k][1], ddosAttackers[k][2])
    /\ Generate("ddos", "simulator", DdosEvents, 0, 0)

DdosOutOfRange ==
    OutOfRange("ddos", "simulator",
               {ddosAttackers[k] : k \in 1 .. Len(ddosAttackers)}, DdosEvents)

(***************************************************************************)
(* Simulator::Stop(appStopTime); Simulator::Run() (lines 1933-1935).       *)
(*                                                                         *)
(* Every node is initialised at time 0 in the order of its id, and its     *)
(* applications, in the order they were installed, then schedule their     *)
(* start at their start time.  The simulator runs events in the order of   *)
(* their time stamp and, at equal time stamps, in the order they were      *)
(* scheduled.                                                              *)
(***************************************************************************)
\* The containers in the order their nodes are created (lines 188-203).
CreationOrder ==
    <<"core", "dist", "access", "ent", "dmz", "vpn", "ap", "wifi", "rem">>

RECURSIVE FirstId(_)
FirstId(j) ==
    IF j = 1 THEN 0 ELSE FirstId(j - 1) + n[CreationOrder[j - 1]]

\* The id of a node; a node read past the end of its container is none of
\* the nodes created, and is placed after them.
NodeId(node) ==
    IF node[1] = "wild"
    THEN FirstId(Len(CreationOrder) + 1) + node[2]
    ELSE FirstId(CHOOSE j \in 1 .. Len(CreationOrder) : CreationOrder[j] = node[1])
             + node[2]

\* The application at position a of events is started before the one at b.
StartsBefore(events, a, b) ==
    \/ events[a].start < events[b].start
    \/ /\ events[a].start = events[b].start
       /\ \/ NodeId(events[a].src) < NodeId(events[b].src)
          \/ NodeId(events[a].src) = NodeId(events[b].src) /\ a < b

\* An executor that starts the applications in the order they were created.
ScheduleInCreationOrder(events) == [k \in 1 .. Len(events) |-> k]

\* The order in which the simulator starts the applications.
Schedule(events) ==
    SortSeq([k \in 1 .. Len(events) |-> k],
            LAMBDA a, b : StartsBefore(events, a, b))

\* The streaming clients given an exponential OffTime too, instead of the
\* constant drawn in main().
RandomOffTimeWithStreaming ==
    [entHttp |-> 1500, entHttps |-> 2000, botComm |-> 5000, entStream |-> 2000]

\* The OnOff applications whose OffTime attribute is an
\* ExponentialRandomVariable (lines 678, 689, 1564), with its mean: the
\* application draws from it when it starts and after every burst.
RandomOffTime == [entHttp |-> 1500, entHttps |-> 2000, botComm |-> 5000]

DrawsWhileRunning(e) == e.gen \in DOMAIN RandomOffTime /\ e.start < appStopTime

\* A run that carries out the redirection itself: when it reaches the
\* redirection window it ends the victims' benign HTTP flows.
SimulatorRunRedirecting ==
    /\ pc = "simulator"
    /\ executed' = Schedule(timeline)
    /\ resampled' = {k \in 1 .. Len(timeline) : DrawsWhileRunning(timeline[k])}
    /\ timeline' = [k \in 1 .. Len(timeline) |->
           IF timeline[k].gen = "entHttp" /\ timeline[k].idx[1] < 2
           THEN [timeline[k] EXCEPT !.stop = redirectStartTime]
           ELSE timeline[k]]
    /\ pc' = "done"
    /\ UNCHANGED <<n, seed, address, subnets, ifaces, services,
                   nextStream, randCalls, run, prev, dmzNet>>

SimulatorRun ==
    /\ pc = "simulator"
    /\ executed' = Schedule(timeline)
    /\ resampled' = {k \in 1 .. Len(timeline) : DrawsWhileRunning(timeline[k])}
    /\ pc' = "done"
    /\ UNCHANGED <<n, seed, address, subnets, ifaces, services, timeline,
                   nextStream, randCalls, run, prev, dmzNet>>

(***************************************************************************)
(* The program.                                                            *)
(***************************************************************************)
Containers ==
    {"p2pDevices1", "p2pDevices2", "vpnToCore", "enterpriseDevices",
     "accessToDistDevices", "dmzDevices", "wifiApToDistDevices", "wifiDevices",
     "vpnDevices"}

Seeds == 0 .. NumLevels - 1

\* The state main() starts in, for one choice of population sizes and seed.
Start(ent, wifi, rem, sd) ==
    /\ pc = "p2pDevices1"
    /\ n = [ent |-> ent, dmz |-> 5, wifi |-> wifi, rem |-> rem, core |-> 1,
            dist |-> 2, access |-> 1, vpn |-> 1, ap |-> 1]
    /\ seed = sd
    /\ address = SetBase(0, 32)
    /\ subnets = <<>>
    /\ ifaces = [c \in Containers |-> <<>>]
    /\ services = <<>>
    /\ timeline = <<>>
    /\ nextStream = 0
    /\ randCalls = 0
    /\ executed = <<>>
    /\ resampled = {}

Init ==
    /\ \E ent \in EnterpriseSizes, wifi \in WifiSizes, rem \in RemoteSizes, sd \in Seeds :
          Start(ent, wifi, rem, sd)
    /\ run = 1
    /\ prev = [seed |-> 0, timeline |-> <<>>]
    /\ dmzNet = DmzBase

\* The blocks of main() that run when every container is large enough.
Build ==
    \/ AssignCore1 \/ AssignCore2 \/ AssignVpnToCore \/ AssignEnterprise
    \/ AssignAccessToDist \/ AssignDmz \/ AssignWifiApToDist \/ AssignWifi
    \/ AssignVpnDevices
    \/ HttpServer \/ HttpsServer \/ SmtpServer \/ ImapServer \/ Pop3Server
    \/ DnsServer \/ FtpServer \/ SshServer \/ EchoServer \/ StreamServer
    \/ EnterpriseHttp \/ EnterpriseEmail \/ EnterpriseDns \/ EnterpriseFtp
    \/ EnterpriseSsh \/ EnterpriseEcho \/ EnterpriseStream
    \/ WifiHttp \/ WifiEmail \/ WifiDns \/ WifiStream \/ WifiFtp \/ WifiSsh
    \/ WifiEcho \/ RemoteClients
    \/ SynFlood \/ UdpFlood \/ IcmpFlood \/ PortScan \/ FakeHttpServer
    \/ MitmRedirect \/ FtpBruteForce \/ SqlInjection \/ SshBruteForce
    \/ FtpLoginFlood \/ CncServer \/ BotComm \/ VpnFlood \/ CredentialStuffing
    \/ Xss \/ ArpSpoof \/ ZeroDay \/ Ddos \/ SimulatorRun

Next ==
    \/ Build
    \/ AssignAbort
    \/ ArpSpoofOutOfRange \/ ZeroDayOutOfRange \/ DdosOutOfRange

Spec == Init /\ [][Next]_vars

(***************************************************************************)
(* Two executions of the program as it is configured (ten clients in each  *)
(* population): once the first has finished, the program is started again  *)
(* with some seed, and what the first execution built is kept in prev.     *)
(***************************************************************************)
Rerun ==
    /\ pc = "done"
    /\ run = 1
    /\ prev' = [seed |-> seed, timeline |-> timeline]
    /\ run' = 2
    /\ \E sd \in Seeds : seed' = sd
    /\ pc' = "p2pDevices1"
    /\ address' = SetBase(0, 32)
    /\ subnets' = <<>>
    /\ ifaces' = [c \in Containers |-> <<>>]
    /\ services' = <<>>
    /\ timeline' = <<>>
    /\ nextStream' = 0
    /\ randCalls' = 0
    /\ executed' = <<>>
    /\ resampled' = {}
    /\ UNCHANGED <<n, dmzNet>>

InitRerun ==
    /\ \E sd \in Seeds : Start(DefaultPop, DefaultPop, DefaultPop, sd)
    /\ run = 1
    /\ prev = [seed |-> 0, timeline |-> <<>>]
    /\ dmzNet = DmzBase

NextRerun == Build \/ Rerun

SpecRerun == InitRerun /\ [][NextRerun]_vars

(***************************************************************************)
(* The program as it is configured, and the same program with the DMZ      *)
(* network of line 405 moved to another base.                              *)
(***************************************************************************)
DmzBaseMoved == IP(10, 3, 2, 0)

InitRenumber ==
    /\ \E sd \in Seeds : Start(DefaultPop, DefaultPop, DefaultPop, sd)
    /\ run = 1
    /\ prev = [seed |-> 0, timeline |-> <<>>]
    /\ dmzNet \in {DmzBase, DmzBaseMoved}

SpecRenumber == InitRenumber /\ [][Build]_vars

(***************************************************************************)
(* Properties.                                                             *)
(***************************************************************************)
\* Two closed ranges <<lo, hi>> share a value.
Overlap(r1, r2) == r1[1] <= r2[2] /\ r2[1] <= r1[2]

IfaceSlots == UNION {{<<c, k>> : k \in 1 .. Len(ifaces[c])} : c \in Containers}

\* The nodes that own an address.
NodesAt(addr) ==
    {ifaces[q[1]][q[2]].node :
        q \in {r \in IfaceSlots : ifaces[r[1]][r[2]].addr = addr}}

\* The services installed on the node and port a target names.
ServicesAt(addr, port) ==
    {k \in 1 .. Len(services) :
        services[k].node \in NodesAt(addr) /\ services[k].port = port}

\* The targets of the events installed so far.
Targets == {<<timeline[k].addr, timeline[k].port>> : k \in 1 .. Len(timeline)}

\* The positions of the events of one generator.
EventsOf(gen) == {k \in 1 .. Len(timeline) : timeline[k].gen = gen}

\* C1: at every point of the build and for every population size, any two
\* distinct subnets handed out so far have address ranges that do not
\* intersect.
SubnetsDisjoint ==
    \A i, j \in 1 .. Len(subnets) :
        i # j => ~Overlap(Range(subnets[i]), Range(subnets[j]))

\* All subnets of a build with ten remote clients have been handed out.
SubnetsDisjointWitness ==
    /\ pc = "httpServer"
    /\ n.rem = 10
    /\ Len(subnets) = 18
    /\ subnets[18] = [prefix |-> 30, base |-> IP(10, 1, 0, 56)]

\* C2: every event of the timeline starts no later than it stops, whatever
\* values the jitter draws take.
StartBeforeStop ==
    \A k \in 1 .. Len(timeline) : timeline[k].start <= timeline[k].stop

\* A finished build of ten remote clients in which the last remote client's
\* streaming flow drew the largest jitter, 19 s, and an enterprise e-mail
\* drew the largest exponential jitter.
StartBeforeStopWitness ==
    /\ pc = "done"
    /\ \E k \in EventsOf("remStream") :
          timeline[k].idx = <<9, 0>> /\ timeline[k].jit = 19000
    /\ \E k \in EventsOf("entEmail") : timeline[k].jit > 600000

\* C3: two services installed on the same node and the same port never have
\* overlapping active windows.
NoPortConflict ==
    \A i, j \in 1 .. Len(services) :
        (i # j /\ services[i].node = services[j].node
               /\ services[i].port = services[j].port)
            => ~Overlap(<<services[i].start, services[i].stop>>,
                        <<services[j].start, services[j].stop>>)

\* All twelve services are installed, and the fake HTTP server is live on
\* the e-mail server's node at the same time as the SMTP server.
NoPortConflictWitness ==
    /\ Len(services) = 12
    /\ \E i, j \in 1 .. Len(services) :
          /\ services[i].name = "smtp"
          /\ services[j].name = "fakeHttp"
          /\ services[i].node = services[j].node
          /\ Overlap(<<services[i].start, services[i].stop>>,
                     <<services[j].start, services[j].stop>>)

\* C4: every event of the timeline targets a node and port on which a
\* service is installed; the events of an instance whose target has no
\* service are absent from the timeline.
AllTargetsInstalled ==
    \A t \in Targets : ServicesAt(t[1], t[2]) # {}

SameTopologyAcrossDraws ==
    (run = 2 /\ pc = "done") =>
        /\ Len(timeline) = Len(prev.timeline)
        /\ \A k \in 1 .. Len(timeline) :
              /\ timeline[k].src = prev.timeline[k].src
              /\ timeline[k].addr = prev.timeline[k].addr
              /\ timeline[k].port = prev.timeline[k].port

EmailGens == {"entEmail", "wifiEmail", "remEmail"}

\* C7 as amended: two executions that differ only in their random draws
\* build timelines of the same length in which every event has the same
\* generator, source node and target address; the target port is the same
\* too, except for the e-mail flows, whose port is one of 25, 143 and 110,
\* selected by a draw.
SameTopologyExceptEmailPort ==
    (run = 2 /\ pc = "done") =>
        /\ Len(timeline) = Len(prev.timeline)
        /\ \A k \in 1 .. Len(timeline) :
              /\ timeline[k].gen = prev.timeline[k].gen
              /\ timeline[k].src = prev.timeline[k].src
              /\ timeline[k].addr = prev.timeline[k].addr
              /\ \/ timeline[k].port = prev.timeline[k].port
                 \/ /\ timeline[k].gen \in EmailGens
                    /\ {timeline[k].port, prev.timeline[k].port} \subseteq {25, 143, 110}

\* Two finished executions with different seeds, in which an e-mail flow of
\* each population changed its port and a sampled size changed too.
SameTopologyExceptEmailPortWitness ==
    /\ run = 2
    /\ pc = "done"
    /\ seed # prev.seed
    /\ \A g \in EmailGens : \E k \in EventsOf(g) :
          timeline[k].port # prev.timeline[k].port
    /\ \E k \in EventsOf("entHttp") : timeline[k].size # prev.timeline[k].size

\* C8: with ten enterprise clients the enterprise HTTP loop installs exactly
\* ten HTTP events, one per client index 0..9; each stops at 1500 s, and the
\* event of client i whose jitter draw is zero starts at 5 + i seconds.
ScenarioA ==
    (n.ent = 10 /\ EventsOf("entHttp") # {}) =>
        /\ Cardinality(EventsOf("entHttp")) = 10
        /\ \A i \in 0 .. 9 : \E k \in EventsOf("entHttp") :
              /\ timeline[k].src = <<"ent", i>>
              /\ timeline[k].stop = 1500000
              /\ timeline[k].jit >= 0
              /\ timeline[k].start = 5000 + 1000 * i + timeline[k].jit
              /\ timeline[k].jit = 0 => timeline[k].start = 5000 + 1000 * i

\* A finished build of ten enterprise clients in which the HTTP events of
\* client 1 and client 9 drew a zero jitter.
ScenarioAWitness ==
    /\ pc = "done"
    /\ n.ent = 10
    /\ \E k \in EventsOf("entHttp") :
          timeline[k].src = <<"ent", 9>> /\ timeline[k].jit = 0
                                         /\ timeline[k].start = 14000
    /\ \E k \in EventsOf("entHttp") :
          timeline[k].src = <<"ent", 1>> /\ timeline[k].jit = 0
                                         /\ timeline[k].start = 6000

\* C9: with at least three remote clients the SYN flood installs exactly
\* three events, of attackers 0, 1 and 2, starting at 60.0, 60.1 and 60.2 s,
\* all stopping at 100 s and all targeting the HTTP service.
ScenarioB ==
    (n.rem >= 3 /\ EventsOf("synFlood") # {}) =>
        /\ Cardinality(EventsOf("synFlood")) = 3
        /\ \A i \in 0 .. 2 : \E k \in EventsOf("synFlood") :
              /\ timeline[k].src = <<"rem", i>>
              /\ timeline[k].start = 60000 + 100 * i
        /\ \A k \in EventsOf("synFlood") :
              /\ timeline[k].stop = 100000
              /\ \E s \in ServicesAt(timeline[k].addr, timeline[k].port) :
                    services[s].name = "http"

\* A finished build of ten remote clients holding the three SYN flood events.
ScenarioBWitness ==
    /\ pc = "done"
    /\ n.rem = 10
    /\ {timeline[k].start : k \in EventsOf("synFlood")} = {60000, 60100, 60200}

\* C10: the port-scan event of attacker a on the k-th entry of the port list
\* starts at scanStart + a * 0.1 + k * 0.01: the offset follows the position
\* of the port in the list.
ScanOffsetByPosition ==
    \A k \in EventsOf("portScan") :
        timeline[k].start =
            150000 + 100 * timeline[k].idx[1] + 10 * timeline[k].idx[2]

\* C10 as amended: the port-scan event of attacker a on port p of the port
\* list starts at scanStart + a * 0.1 + p * 0.01: the offset follows the
\* port number.
ScanOffsetByPort ==
    \A k \in EventsOf("portScan") :
        /\ timeline[k].port = portsToScan[timeline[k].idx[2] + 1]
        /\ timeline[k].start =
               150000 + 100 * timeline[k].idx[1] + 10 * timeline[k].port

\* The probe of attacker 2 on the last port of the list, 587, is installed:
\* it starts at 150 + 0.2 + 5.87 s.
ScanOffsetByPortWitness ==
    \E k \in EventsOf("portScan") :
        /\ timeline[k].idx = <<2, 11>>
        /\ timeline[k].port = 587
        /\ timeline[k].start = 156070

\* C11: with at least three Wi-Fi stations the port scan installs exactly
\* 36 events, one for every pair of an attacker 0..2 and a port of the
\* twelve-entry list, all to the address of the HTTP/HTTPS server and all
\* stopping at 168 s.
ScenarioC ==
    LET scan == EventsOf("portScan")
    IN  (n.wifi >= 3 /\ scan # {}) =>
            /\ Cardinality(scan) = 36
            /\ \A a \in 0 .. 2 :
               \A p \in {21, 22, 25, 53, 80, 110, 123, 143, 179, 443, 500, 587} :
                  Cardinality({k \in scan : /\ timeline[k].src = <<"wifi", a>>
                                            /\ timeline[k].port = p}) = 1
            /\ \A k \in scan :
                  /\ NodesAt(timeline[k].addr) = {<<"dmz", 0>>}
                  /\ timeline[k].stop = 168000

\* A finished build of ten Wi-Fi stations that holds the probes of attacker 0
\* on port 21 and of attacker 2 on port 587.
ScenarioCWitness ==
    /\ pc = "done"
    /\ n.wifi = 10
    /\ Cardinality(EventsOf("portScan")) = 36
    /\ \E k \in EventsOf("portScan") :
          timeline[k].src = <<"wifi", 0>> /\ timeline[k].port = 21
    /\ \E k \in EventsOf("portScan") :
          timeline[k].src = <<"wifi", 2>> /\ timeline[k].port = 587

OwnRandomSource ==
    /\ \A k \in EventsOf("entHttps") :
          LET i == timeline[k].idx[1]
          IN  /\ timeline[k].size = GetValue(512, 10 * KB, Out(0, i))
              /\ timeline[k].jit = Exp(500, Out(1, i))
    /\ \A k \in EventsOf("remHttps") :
          timeline[k].idx[1] = 0 =>
              timeline[k].size = 128 * KB + RandMod(1 * MB, CRand(0))

\* C15: while a victim's redirection window is open, the victim's benign
\* HTTP flow has the decoy as its destination: no enterprise HTTP flow of a
\* redirected client is directed at the real HTTP server at any time of
\* that client's redirection window.
VictimsRedirected ==
    \A m \in EventsOf("mitm") :
        \A k \in EventsOf("entHttp") :
            timeline[k].src = timeline[m].src =>
                ~ /\ timeline[k].addr = webServerIp
                  /\ timeline[k].port = httpPort
                  /\ timeline[k].start < timeline[m].stop
                  /\ timeline[m].start < timeline[k].stop

\* C16: every event's target address is one the address assignment gave to
\* a node, and a streaming flow's target is the address of a node that
\* hosts the streaming service, also when the DMZ network is moved.
TargetsFollowAssignment ==
    \A t \in Targets :
        /\ NodesAt(t[1]) # {}
        /\ t[2] = streamPort => ServicesAt(t[1], t[2]) # {}

\* C17: once the first flow or attack event has been generated, no service
\* binding and no address is added or changed.
DirectoryFrozen ==
    [][timeline # <<>> =>
          /\ services' = services
          /\ ifaces' = ifaces
          /\ subnets' = subnets]_vars

\* C17 as amended: once the first event has been generated, no address is
\* added or changed and no existing service binding is changed or removed;
\* the only bindings added are the two attack listeners, the fake HTTP
\* server and the C&C server.
OnlyAttackListenersAdded ==
    [][timeline # <<>> =>
          /\ ifaces' = ifaces
          /\ subnets' = subnets
          /\ \/ services' = services
             \/ \E svc \in {services'[k] : k \in 1 .. Len(services')} :
                   /\ services' = Append(services, svc)
                   /\ svc.name \in {"fakeHttp", "cnc"}]_vars

\* Flows have been generated and both attack listeners have been installed
\* after them, behind the ten servers of the topology build.
OnlyAttackListenersAddedWitness ==
    /\ timeline # <<>>
    /\ Len(services) = 12
    /\ services[11].name = "fakeHttp"
    /\ services[12].name = "cnc"
    /\ \E k \in 1 .. Len(timeline) : timeline[k].start < services[11].start

\* The populations for which some network of the address plan has fewer
\* host addresses than devices, or a remote client's base leaves 10.1.0.x.
Exhausts ==
    \/ n.ent + 1 > 254
    \/ n.wifi + 1 > 254
    \/ (n.rem - 1) * 4 + 20 > 255

\* C18: when address assignment fails, the build has aborted with no service
\* installed and no event created; and with populations that exhaust a
\* network, no service or event is ever created.
BuildAbortsEmpty ==
    /\ pc = "aborted" => services = <<>> /\ timeline = <<>>
    /\ Exhausts => services = <<>> /\ timeline = <<>>
    /\ Exhausts => pc \notin {"httpServer", "simulator", "done"}

\* The build aborted at the sixtieth remote client's base, 10.1.0.256, after
\* the eight networks before it had been assigned.
BuildAbortsEmptyWitness ==
    /\ pc = "aborted"
    /\ n.rem = OversizeRemote
    /\ Len(subnets) = 8
    /\ timeline = <<>>

\* C19: the timeline is complete before the simulator runs: the step that
\* runs the simulator, and any step after it, creates no event or service and
\* changes no window, and every step that does create one happens while
\* nothing has been executed.
TimelineBuiltBeforeRun ==
    [][/\ pc \in {"simulator", "done"} =>
             timeline' = timeline /\ services' = services
       /\ (timeline' # timeline \/ services' # services) =>
             executed = <<>> /\ executed' = <<>>]_vars

\* The simulator has run the events of a build that ended with the DDoS
\* attack, and the timeline still ends with that attack's last event.
TimelineBuiltBeforeRunWitness ==
    /\ pc = "done"
    /\ executed # <<>>
    /\ timeline[Len(timeline)].gen = "ddos"
    /\ \A k \in 1 .. Len(timeline) : timeline[k].start < timeline[k].stop

\* C20: whatever the seed and the population sizes, the first /30 handed
\* out is 10.1.0.0/30 and the second 10.1.0.4/30: after the first link the
\* allocator stands at 10.1.0.4/30, and the two core-router links hold the
\* hosts .1, .2 and .5, .6 of these networks.
CoreLinksInOrder ==
    /\ pc = "p2pDevices2" =>
          /\ subnets = << [prefix |-> 30, base |-> IP(10, 1, 0, 0)] >>
          /\ address = [prefix |-> 30, net |-> IP(10, 1, 0, 4), next |-> 1]
    /\ Len(subnets) >= 2 =>
          /\ subnets[1] = [prefix |-> 30, base |-> IP(10, 1, 0, 0)]
          /\ subnets[2] = [prefix |-> 30, base |-> IP(10, 1, 0, 4)]
          /\ [j \in 1 .. 2 |-> ifaces["p2pDevices1"][j].addr]
                = <<IP(10, 1, 0, 1), IP(10, 1, 0, 2)>>
          /\ [j \in 1 .. 2 |-> ifaces["p2pDevices2"][j].addr]
                = <<IP(10, 1, 0, 5), IP(10, 1, 0, 6)>>

\* Both core-router links have just been addressed, the second one to
\* distribution switch 1 at 10.1.0.6.
CoreLinksInOrderWitness ==
    /\ pc = "vpnToCore"
    /\ Len(subnets) = 2
    /\ ifaces["p2pDevices2"][2] = [node |-> Node("dist", 1), addr |-> IP(10, 1, 0, 6)]
    /\ address.net = IP(10, 1, 0, 8)

\* The generators of benign client applications.
BenignGens ==
    {"entHttp", "entHttps", "entEmail", "entDns", "entFtp", "entSsh", "entEcho",
     "entStream", "wifiHttp", "wifiHttps", "wifiEmail", "wifiDns", "wifiStream",
     "wifiFtp", "wifiSsh", "wifiEcho", "remHttp", "remHttps", "remEmail",
     "remDns", "remFtp", "remSsh", "remEcho", "remStream"}

ClientsOf(gen) ==
    IF gen \in {"entHttp", "entHttps", "entEmail", "entDns", "entFtp", "entSsh",
                "entEcho", "entStream"} THEN n.ent
    ELSE IF gen \in {"remHttp", "remHttps", "remEmail", "remDns", "remFtp",
                     "remSsh", "remEcho", "remStream"} THEN n.rem
    ELSE n.wifi

\* The number of events a benign generator is to produce for client i.
Repeats(gen, i) ==
    CASE gen = "entEmail" -> 10
      [] gen = "entDns" -> 20 + 5 * i
      [] gen = "entFtp" -> 3 + (i % 3)
      [] gen = "entSsh" -> 2 + (i % 3)
      [] OTHER -> 1

\* C22: when the benign applications have all been installed, every benign
\* generator has produced exactly one event per (client, repeat-index) pair
\* and no other event: with ten enterprise clients 100 e-mail, 425 DNS, 39
\* FTP and 29 SSH events, and one event per client of a single-shot
\* generator.
OneEventPerPair ==
    pc = "synFlood" =>
        /\ \A k \in 1 .. Len(timeline) : timeline[k].gen \in BenignGens
        /\ \A g \in BenignGens :
              LET evs == EventsOf(g)
                  pairs == UNION {{<<i, j>> : j \in 0 .. Repeats(g, i) - 1} :
                                     i \in 0 .. ClientsOf(g) - 1}
              IN  /\ {timeline[k].idx : k \in evs} = pairs
                  /\ Cardinality(evs) = Cardinality(pairs)
                  /\ \A k \in evs : timeline[k].src = Node(timeline[k].src[1], timeline[k].idx[1])
        /\ n.ent = 10 =>
              /\ Cardinality(EventsOf("entEmail")) = 100
              /\ Cardinality(EventsOf("entDns")) = 425
              /\ Cardinality(EventsOf("entFtp")) = 39
              /\ Cardinality(EventsOf("entSsh")) = 29
              /\ Cardinality(EventsOf("entEcho")) = 10

\* The benign applications of ten enterprise clients, three Wi-Fi stations
\* and two remote clients have been installed: 425 DNS events, the last one
\* request 64 of client 9, and two remote streaming events.
OneEventPerPairWitness ==
    /\ pc = "synFlood"
    /\ n.ent = 10 /\ n.wifi = 3 /\ n.rem = 2
    /\ \E k \in EventsOf("entDns") : timeline[k].idx = <<9, 64>>
    /\ Cardinality(EventsOf("remStream")) = 2
    /\ Cardinality(EventsOf("wifiSsh")) = 3

\* The credential attacks as declared: generator, attacking population,
\* attackers, attempts, base, attacker delta, attempt delta, stop, payload.
CredentialAttacks ==
    { <<"ftpBruteForce", "rem", 3, 10, 347000, 100, 500, 367000, 512>>,
      <<"sshBruteForce", "rem", 3, 20, 169000, 200, 200, 184000, 512>>,
      <<"ftpLoginFlood", "ent", 2, 30, 483000, 100, 100, 533000, 1024>>,
      <<"credentialStuffing", "rem", 3, 15, 444000, 200, 100, 483000, 512>> }

\* C23: once the four credential attacks have been installed, each consists
\* of exactly attackers * attempts events, one per (attacker, attempt) pair,
\* the attackers being the declared number or the whole population if that
\* is smaller; the event of attacker i and attempt a starts at
\* base + i * D_attacker + a * D_attempt, carries the attack's payload size,
\* stops at the attack's stop and starts before it.
CredentialAttackEvents ==
    pc = "xss" =>
        \A atk \in CredentialAttacks :
            LET evs == EventsOf(atk[1])
                attackers == IF n[atk[2]] < atk[3] THEN n[atk[2]] ELSE atk[3]
            IN  /\ Cardinality(evs) = attackers * atk[4]
                /\ {timeline[k].idx : k \in evs}
                      = (0 .. attackers - 1) \X (0 .. atk[4] - 1)
                /\ \A k \in evs :
                      LET e == timeline[k]
                      IN  /\ e.src = Node(atk[2], e.idx[1])
                          /\ e.start = atk[5] + e.idx[1] * atk[6] + e.idx[2] * atk[7]
                          /\ e.stop = atk[8]
                          /\ e.size = atk[9]
                          /\ e.start < e.stop

\* With ten clients per population the four attacks have 30, 60, 60 and 45
\* events; the last SSH attempt of remote client 2 starts at 173.2 s.
CredentialAttackEventsWitness ==
    /\ pc = "xss"
    /\ n.ent = 10 /\ n.rem = 10
    /\ Cardinality(EventsOf("ftpBruteForce")) = 30
    /\ Cardinality(EventsOf("sshBruteForce")) = 60
    /\ Cardinality(EventsOf("ftpLoginFlood")) = 60
    /\ Cardinality(EventsOf("credentialStuffing")) = 45
    /\ \E k \in EventsOf("sshBruteForce") :
          timeline[k].idx = <<2, 19>> /\ timeline[k].start = 173200

\* The payload-injection attacks as declared: generator, attackers, base,
\* payload delta, and the lengths of the payload strings in order.
InjectionAttacks ==
    { <<"sqlInjection", 3, 368000, 500, <<11, 11, 11, 23, 35, 34>> >>,
      <<"xss", 2, 728000, 200, <<53, 57, 59, 60>> >> }

\* C24: once both payload-injection attacks have been installed, each has
\* exactly one event per (attacker, payload) pair; the event of attacker i
\* and payload p has packet size length(payload p) + 50 and starts at
\* base + i * 0.1 + p * D_payload, D_payload being 0.5 s for SQL injection
\* and 0.2 s for XSS.
InjectionEvents ==
    pc = "arpSpoof" =>
        \A atk \in InjectionAttacks :
            LET evs == EventsOf(atk[1])
                attackers == IF n.ent < atk[2] THEN n.ent ELSE atk[2]
            IN  /\ Cardinality(evs) = attackers * Len(atk[5])
                /\ {timeline[k].idx : k \in evs}
                      = (0 .. attackers - 1) \X (0 .. Len(atk[5]) - 1)
                /\ \A k \in evs :
                      LET e == timeline[k]
                      IN  /\ e.src = Node("ent", e.idx[1])
                          /\ e.size = atk[5][e.idx[2] + 1] + 50
                          /\ e.start = atk[3] + e.idx[1] * 100 + e.idx[2] * atk[4]

\* Three enterprise clients sent six SQL payloads each and two sent four XSS
\* payloads each; the UNION payload of client 2 is an 84-byte packet starting
\* at 370.7 s, the last XSS payload of client 1 a 110-byte one at 728.7 s.
InjectionEventsWitness ==
    /\ pc = "arpSpoof"
    /\ Cardinality(EventsOf("sqlInjection")) = 18
    /\ Cardinality(EventsOf("xss")) = 8
    /\ \E k \in EventsOf("sqlInjection") :
          /\ timeline[k].idx = <<2, 5>>
          /\ timeline[k].size = 84
          /\ timeline[k].start = 370700
    /\ \E k \in EventsOf("xss") :
          /\ timeline[k].idx = <<1, 3>>
          /\ timeline[k].size = 110
          /\ timeline[k].start = 728700

\* The protocols whose size is uniform on both populations: enterprise
\* generator, Wi-Fi generator, and the largest whole number of bytes each
\* distribution yields (a real drawn below Max is cut to a whole number, an
\* integer is drawn up to Max).
SizeCeilings ==
    { <<"entHttp", "wifiHttp", 10 * 1024 - 1, 1500>>,
      <<"entHttps", "wifiHttps", 10 * 1024 - 1, 2000>>,
      <<"entEmail", "wifiEmail", 150 * 1024 - 1, 80 * 1024>>,
      <<"entDns", "wifiDns", 512 - 1, 256>>,
      <<"entFtp", "wifiFtp", 10 * 1024 * 1024 - 1, 2 * 1024 * 1024>>,
      <<"entEcho", "wifiEcho", 1500, 1024>>,
      <<"entStream", "wifiStream", 1500, 1200>> }

\* C25: for each of these protocols no Wi-Fi event is larger than the Wi-Fi
\* ceiling, no enterprise event larger than the enterprise ceiling, and the
\* Wi-Fi ceiling is the lower of the two.
WifiCeilingsLower ==
    pc = "remote" =>
        \A p \in SizeCeilings :
            /\ p[4] < p[3]
            /\ \A k \in EventsOf(p[1]) : timeline[k].size <= p[3]
            /\ \A k \in EventsOf(p[2]) : timeline[k].size <= p[4]

\* The ceilings are reached: in one build some enterprise HTTP, e-mail, DNS,
\* FTP, echo and streaming event has the enterprise ceiling as its size,
\* which no Wi-Fi event can have, and some Wi-Fi HTTPS, e-mail, DNS, FTP,
\* echo and streaming event has the Wi-Fi ceiling.  (With an even
\* NumLevels the HTTP and the HTTPS draws of one build take levels of
\* opposite parity, so one build does not bring both to their largest.)
WifiCeilingsLowerWitness ==
    /\ pc = "remote"
    /\ \A p \in SizeCeilings :
          /\ p[1] # "entHttps" => \E k \in EventsOf(p[1]) : timeline[k].size = p[3]
          /\ p[2] # "wifiHttp" => \E k \in EventsOf(p[2]) : timeline[k].size = p[4]

\* The size ranges the comments of the remote-client loop document, in
\* bytes.
DocumentedRemoteSizes ==
    { <<"remHttp", 256 * 1024, 1024 * 1024>>,
      <<"remHttps", 128 * 1024, 1024 * 1024>>,
      <<"remEmail", 20 * 1024, 100 * 1024>>,
      <<"remFtp", 200 * 1024, 3 * 1024 * 1024>>,
      <<"remSsh", 100 * 1024, 400 * 1024>>,
      <<"remEcho", 256, 768>>,
      <<"remStream", 0, 1024>> }

\* C26: every size drawn for a remote client's flow lies inside the range
\* its comment documents.
RemoteSizesAsDocumented ==
    \A d \in DocumentedRemoteSizes :
        \A k \in EventsOf(d[1]) :
            d[2] <= timeline[k].size /\ timeline[k].size <= d[3]

\* The targets of the events installed so far, with their transport.
TransportTargets ==
    {<<timeline[k].addr, timeline[k].port, timeline[k].proto>> :
        k \in 1 .. Len(timeline)}

\* The services installed on the node, port and transport a target names.
ServicesOn(t) == {s \in ServicesAt(t[1], t[2]) : services[s].proto = t[3]}

\* C27: when the build is complete, every event whose target node, port and
\* transport has a service installed starts no earlier than that service
\* starts and stops no later than it stops.
WindowsInsideService ==
    pc = "simulator" =>
        \A t \in TransportTargets :
            LET svcs == ServicesOn(t)
            IN  svcs # {} =>
                    \A k \in 1 .. Len(timeline) :
                        (timeline[k].addr = t[1] /\ timeline[k].port = t[2]
                            /\ timeline[k].proto = t[3]) =>
                            \A s \in svcs :
                                /\ services[s].start <= timeline[k].start
                                /\ timeline[k].stop <= services[s].stop

\* A complete build in which a MitM client (262 s to 313 s) targets the fake
\* HTTP server (10 s to 450 s) and a bot (546 s to 607 s) the C&C listener
\* (20 s to 700 s).
WindowsInsideServiceWitness ==
    /\ pc = "simulator"
    /\ \E k \in EventsOf("mitm"), s \in 1 .. Len(services) :
          /\ services[s].name = "fakeHttp"
          /\ s \in ServicesOn(<<timeline[k].addr, timeline[k].port, timeline[k].proto>>)
          /\ services[s].start = 10000 /\ services[s].stop = 450000
          /\ timeline[k].start = 262000 /\ timeline[k].stop = 313000
    /\ \E k \in EventsOf("botComm"), s \in 1 .. Len(services) :
          /\ services[s].name = "cnc"
          /\ s \in ServicesOn(<<timeline[k].addr, timeline[k].port, timeline[k].proto>>)
          /\ services[s].start = 20000 /\ services[s].stop = 700000
          /\ timeline[k].start = 546000 /\ timeline[k].stop = 607000

\* The declared window of each of the 16 attack groups, by the generator of
\* its events.
AttackWindows ==
    { <<"synFlood", attackStartTime, attackStopTime>>,
      <<"udpFlood", udpFloodStartTime, udpFloodStopTime>>,
      <<"icmpFlood", icmpFloodStartTime, icmpFloodStopTime>>,
      <<"portScan", scanStartTime, scanStopTime>>,
      <<"mitm", redirectStartTime, redirectStopTime>>,
      <<"ftpBruteForce", bruteForceStartTime, bruteForceStopTime>>,
      <<"sqlInjection", sqlInjectionStartTime, sqlInjectionStopTime>>,
      <<"sshBruteForce", sshBruteForceStartTime, sshBruteForceStopTime>>,
      <<"ftpLoginFlood", ftpBruteForceStartTime, ftpBruteForceStopTime>>,
      <<"botComm", botCommStartTime, botCommStopTime>>,
      <<"vpnFlood", vpnFloodStartTime, vpnFloodStopTime>>,
      <<"credentialStuffing", credentialStuffingStartTime, credentialStuffingStopTime>>,
      <<"xss", xssStartTime, xssStopTime>>,
      <<"arpSpoof", arpPoisonStartTime, arpPoisonStopTime>>,
      <<"zeroDay", zeroDayStartTime, zeroDayStopTime>>,
      <<"ddos", ddosStartTime, ddosStopTime>> }

AttackGroups == {w[1] : w \in AttackWindows}

\* The declared window <<start, stop>> of a group.
Window(g) == LET w == CHOOSE w \in AttackWindows : w[1] = g IN <<w[2], w[3]>>

\* The attack group of a generator; the two zero-day flows are one group.
AttackGroup(gen) == IF gen = "zeroDayHttps" THEN "zeroDay" ELSE gen

\* The windows [a[1], a[2]] and [b[1], b[2]] share more than one instant.
ShareMoreThanAnInstant(a, b) == a[1] < b[2] /\ b[1] < a[2]

\* The instants two windows meet at without sharing more.
TouchingInstants ==
    {t \in {w[3] : w \in AttackWindows} :
        \E v, w \in AttackWindows : v[1] # w[1] /\ v[3] = t /\ w[2] = t}

AttackLoops ==
    { <<"synFlood", "rem", 3>>, <<"udpFlood", "ent", 3>>,
      <<"icmpFlood", "wifi", 3>>, <<"portScan", "wifi", 3>>,
      <<"mitm", "ent", 2>>, <<"ftpBruteForce", "rem", 3>>,
      <<"sqlInjection", "ent", 3>>, <<"sshBruteForce", "rem", 3>>,
      <<"ftpLoginFlood", "ent", 2>>, <<"botComm", "wifi", 3>>,
      <<"vpnFlood", "rem", 3>>, <<"credentialStuffing", "rem", 3>>,
      <<"xss", "ent", 2>> }

\* Each attack loop that has run used exactly the attackers
\* 0 .. min(declared, population) - 1 of its population.
AttackLoopsInRange ==
    \A l \in AttackLoops :
        LET evs == EventsOf(l[1])
        IN  evs # {} =>
                /\ {timeline[k].idx[1] : k \in evs} = 0 .. (Min(l[3], n[l[2]]) - 1)
                /\ \A k \in evs : timeline[k].src = Node(l[2], timeline[k].idx[1])

\* No read past the end of a container has happened: the build has not
\* crashed on one, and every source on the timeline is a node of its
\* population.
PicksInRange ==
    /\ pc # "crashed"
    /\ \A k \in 1 .. Len(timeline) :
          /\ timeline[k].src[1] \in DOMAIN n
          /\ timeline[k].src[2] < n[timeline[k].src[1]]

\* C29: for every population size the build is run with, every node index
\* used to select a source is smaller than the size of its population: each
\* attack loop uses exactly min(declared attackers, population size)
\* attackers, and the fixed picks (enterprise client 1 and 2, Wi-Fi station
\* 1, remote client 2) never read past the end of their population.
NodeIndicesInRange == AttackLoopsInRange /\ PicksInRange

\* C30: when the build is complete, every service and every benign or attack
\* event starts no earlier than appStartTime (1 s) and stops no later than
\* the time Simulator::Stop is scheduled at, appStopTime (1500 s).
WithinHorizon ==
    pc = "simulator" =>
        /\ \A s \in 1 .. Len(services) :
              appStartTime <= services[s].start /\ services[s].stop <= appStopTime
        /\ \A k \in 1 .. Len(timeline) :
              appStartTime <= timeline[k].start /\ timeline[k].stop <= appStopTime

\* The build is complete; a service starts at appStartTime, a flow stops at
\* appStopTime, and the zero-day flows, the latest attack, stop at 983 s.
WithinHorizonWitness ==
    /\ pc = "simulator"
    /\ \E s \in 1 .. Len(services) : services[s].start = appStartTime
    /\ \E k \in EventsOf("entHttp") : timeline[k].stop = appStopTime
    /\ \E k \in EventsOf("zeroDayHttps") :
          /\ timeline[k].stop = 983000
          /\ \A j \in 1 .. Len(timeline) :
                timeline[j].gen \in AttackGroups => timeline[j].stop <= timeline[k].stop

====
